---------------------------- MODULE Spec2Model ----------------------------
(***************************************************************************)
(* What2Eat frontend: the streaming query pipeline (api.queryStream and    *)
(* ChatContainer.handleSubmit), the chat store (useChatStore), the retry   *)
(* helper (retryWithBackoff), the error classification (errorHandler.ts)   *)
(* and the size-capped storage adapter (customStorage).                    *)
(*                                                                         *)
(* Text is a sequence of one-character strings.  A JSON payload on the     *)
(* wire is written in a short notation ("{ca}" is a content record with    *)
(* content "a"); JSONParse is the table from payload text to parsed        *)
(* object and fails on every other text, as JSON.parse does.               *)
(***************************************************************************)
EXTENDS Integers, Sequences, FiniteSets, TLC

\* ------------------------------------------------------------------------
\* Bounds of the model
\* ------------------------------------------------------------------------
MaxLines == 2
MaxTurns == 2
MaxRetriesArg == 2
MaxMsgs == 3

\* ------------------------------------------------------------------------
\* JavaScript values
\* ------------------------------------------------------------------------
\* null for a string-valued field (text is a sequence of characters, and no
\* character is the token "null")
Null == <<"null">>
\* undefined / null for scalar fields
Undef == "undefined"
NoId == 0
\* undefined for an array-valued field
UndefSeq == <<"undefined">>

Min(S) == CHOOSE x \in S : \A y \in S : x <= y
Max(S) == CHOOSE x \in S : \A y \in S : x >= y

Last(s) == s[Len(s)]
Front(s) == SubSeq(s, 1, Len(s) - 1)

\* ------------------------------------------------------------------------
\* String primitives used by queryStream
\* ------------------------------------------------------------------------
Whitespace == {" ", "\r", "\t", "\n"}

\* String.prototype.trim
Trim(s) ==
  LET idx == {i \in 1..Len(s) : s[i] \notin Whitespace}
  IN IF idx = {} THEN <<>> ELSE SubSeq(s, Min(idx), Max(idx))

\* String.prototype.split("\n")
RECURSIVE SplitLines(_)
SplitLines(s) ==
  LET nl == {i \in 1..Len(s) : s[i] = "\n"}
  IN IF nl = {} THEN <<s>>
     ELSE <<SubSeq(s, 1, Min(nl) - 1)>> \o SplitLines(SubSeq(s, Min(nl) + 1, Len(s)))

\* String.prototype.startsWith
StartsWith(s, p) == Len(s) >= Len(p) /\ SubSeq(s, 1, Len(p)) = p

DataPrefix == <<"d", "a", "t", "a", ":", " ">>
DoneSentinel == <<"[", "D", "O", "N", "E", "]">>

\* ------------------------------------------------------------------------
\* Parsed stream records
\* ------------------------------------------------------------------------
\* A parsed object; `inner` is TRUE when the object has a `metadata` field,
\* whose strategy and complexity are then innerStrategy and innerComplexity.
EmptyObj ==
  [type |-> Undef, content |-> Null, chunk |-> Null, message |-> Undef,
   documents |-> UndefSeq, strategy |-> Undef, complexity |-> Undef,
   relationship_intensity |-> Undef, inner |-> FALSE,
   innerStrategy |-> Undef, innerComplexity |-> Undef]

PayloadContent(c) == <<"{", "c", c, "}">>
PayloadContentEmpty == <<"{", "c", "}">>
PayloadMetadata == <<"{", "m", "}">>
PayloadDocuments == <<"{", "o", "}">>
PayloadDone == <<"{", "n", "}">>
PayloadError == <<"{", "e", "}">>
PayloadChunk(c) == <<"{", "k", c, "}">>
PayloadLegacyMetadata == <<"{", "M", "}">>
PayloadMalformed == <<"{", "c", "a">>

Letters == {"a", "b"}

\* JSON.parse: [ok |-> parsed without a SyntaxError, obj |-> the value]
JSONParse(data) ==
  IF \E c \in Letters : data = PayloadContent(c)
    THEN [ok |-> TRUE, obj |-> [EmptyObj EXCEPT !.type = "content", !.content = <<data[3]>>]]
  ELSE IF data = PayloadContentEmpty
    THEN [ok |-> TRUE, obj |-> [EmptyObj EXCEPT !.type = "content", !.content = <<>>]]
  ELSE IF data = PayloadMetadata
    THEN [ok |-> TRUE, obj |-> [EmptyObj EXCEPT !.type = "metadata",
                                  !.strategy = "hybrid_traditional",
                                  !.complexity = "0.4",
                                  !.relationship_intensity = "0.2"]]
  ELSE IF data = PayloadDocuments
    THEN [ok |-> TRUE, obj |-> [EmptyObj EXCEPT !.type = "documents", !.documents = <<"doc1">>]]
  ELSE IF data = PayloadDone
    THEN [ok |-> TRUE, obj |-> [EmptyObj EXCEPT !.type = "done"]]
  ELSE IF data = PayloadError
    THEN [ok |-> TRUE, obj |-> [EmptyObj EXCEPT !.type = "error", !.message = "boom"]]
  ELSE IF \E c \in Letters : data = PayloadChunk(c)
    THEN [ok |-> TRUE, obj |-> [EmptyObj EXCEPT !.chunk = <<data[3]>>]]
  ELSE IF data = PayloadLegacyMetadata
    THEN [ok |-> TRUE, obj |-> [EmptyObj EXCEPT !.inner = TRUE,
                                  !.innerStrategy = "graph_rag",
                                  !.innerComplexity = "0.7"]]
  ELSE [ok |-> FALSE, obj |-> EmptyObj]

\* parsed.metadata of a legacy record: an object without `type`
InnerMetadata(obj) ==
  [EmptyObj EXCEPT !.strategy = obj.innerStrategy, !.complexity = obj.innerComplexity]

\* JavaScript truthiness of a string field
Truthy(s) == s # Null /\ s # <<>>


\* ------------------------------------------------------------------------
\* Error values and errorHandler.ts
\* ------------------------------------------------------------------------
\* An error value: `request` and `hasResponse` say whether error.request and
\* error.response are set, `status` is error.response.status, `detail` is
\* error.response.data.detail, `statusCode` is the field of an APIError.
MessagesWithTimeout == {"timeout of 120000ms exceeded", "Unexpected token in JSON at timeout"}
MessagesWithoutTimeout == {"Failed to fetch", "Query failed", "Request failed", "Unexpected token"}

\* error.message?.includes("timeout")
IncludesTimeout(message) == message \in MessagesWithTimeout

MkError(name, request, hasResponse, status, code, message) ==
  [name |-> name, request |-> request, hasResponse |-> hasResponse,
   status |-> status, detail |-> Undef, code |-> code, message |-> message,
   statusCode |-> 0]

\* new APIError(message, statusCode, details)
APIError(message, statusCode) ==
  [MkError("APIError", FALSE, FALSE, 0, Undef, message) EXCEPT !.statusCode = statusCode]

\* the TypeError with which fetch() and reader.read() reject when the
\* connection fails
FetchTypeError == MkError("TypeError", FALSE, FALSE, 0, Undef, "Failed to fetch")

\* new Error(parsed.message)
PlainError(message) == MkError("Error", FALSE, FALSE, 0, Undef, message)

NoError == MkError("none", FALSE, FALSE, 0, Undef, "")

handleAPIError(error) ==
  IF error.hasResponse THEN
    IF error.status = 503 THEN "system initializing"
    ELSE IF error.status >= 500 THEN "server error"
    ELSE IF error.status = 400 THEN (IF error.detail # Undef THEN error.detail ELSE "invalid request")
    ELSE IF error.status = 404 THEN "not found"
    ELSE IF error.status = 429 THEN "too many requests"
    ELSE (IF error.detail # Undef THEN error.detail ELSE "request failed")
  ELSE IF error.request THEN "cannot connect"
  ELSE IF error.name = "APIError" THEN error.message
  ELSE "unknown error"

isNetworkError(error) == error.request /\ ~error.hasResponse

isTimeoutError(error) == error.code = "ECONNABORTED" \/ IncludesTimeout(error.message)

isRetryableError(error) ==
  IF isNetworkError(error) \/ isTimeoutError(error) THEN TRUE
  ELSE IF error.hasResponse THEN error.status >= 500 \/ error.status = 429
  ELSE FALSE

\* ------------------------------------------------------------------------
\* useChatStore: the operations, as functions of the state of one running
\* page.  The record holds the store's fields, the locals of the running
\* handleSubmit, and the history of the callbacks queryStream has made.
\* ------------------------------------------------------------------------
NoMetadata ==
  [present |-> FALSE, complexity |-> Undef, relationship_intensity |-> Undef, strategy |-> Undef]
\* the object literal {}
EmptyMetadata == [NoMetadata EXCEPT !.present = TRUE]

MkMessage(id, role, content, strategy, documents, metadata) ==
  [id |-> id, role |-> role, content |-> content, strategy |-> strategy,
   documents |-> documents, metadata |-> metadata]

\* a variant that puts the new message in front of the list
addMessageInFront(s, role, content) ==
  [s EXCEPT !.messages = <<MkMessage(s.nextId, role, content, Undef, UndefSeq, NoMetadata)>> \o @,
            !.nextId = @ + 1]

\* [...state.messages, newMessage] with a fresh id
addMessage(s, role, content) ==
  [s EXCEPT !.messages = Append(@, MkMessage(s.nextId, role, content, Undef, UndefSeq, NoMetadata)),
            !.nextId = @ + 1]

\* a variant that allots the id and leaves the content null
startStreamingMessageWithoutContent(s) ==
  [s EXCEPT !.currentStreamingMessageId = s.nextId,
            !.nextId = @ + 1]

\* set({currentStreamingMessage: "", currentStreamingMessageId: messageId})
startStreamingMessage(s) ==
  [s EXCEPT !.currentStreamingMessage = <<>>,
            !.currentStreamingMessageId = s.nextId,
            !.nextId = @ + 1]

\* a variant that puts the new content in front
AppendContentInFront(current, content) == content \o (IF Truthy(current) THEN current ELSE <<>>)

\* (state.currentStreamingMessage || '') + content
AppendContent(current, content) == (IF Truthy(current) THEN current ELSE <<>>) \o content

updateStreamingMessage(s, content) ==
  [s EXCEPT !.currentStreamingMessage = AppendContent(@, content)]

\* the guard of finalizeStreamingMessage
CanFinalize(current, id) == current # Null /\ id # NoId

finalizeStreamingMessage(s, strategy, documents, metadata) ==
  IF CanFinalize(s.currentStreamingMessage, s.currentStreamingMessageId)
  THEN [s EXCEPT !.messages = Append(@, MkMessage(s.currentStreamingMessageId, "assistant",
                                                  s.currentStreamingMessage,
                                                  strategy, documents, metadata)),
                 !.currentStreamingMessage = Null,
                 !.currentStreamingMessageId = NoId,
                 !.isLoading = FALSE,
                 !.sealed = @ + 1]
  ELSE s

clearMessages(s) ==
  [s EXCEPT !.messages = <<>>,
            !.currentStreamingMessage = Null,
            !.currentStreamingMessageId = NoId,
            !.error = Undef]

setLoading(s, loading) == [s EXCEPT !.isLoading = loading]

setError(s, error) == [s EXCEPT !.error = error, !.isLoading = FALSE]

\* ------------------------------------------------------------------------
\* handleSubmit: the callbacks handed to queryStream
\* ------------------------------------------------------------------------
LogChunk(chunk) == [cb |-> "onChunk", chunk |-> chunk, obj |-> EmptyObj]
LogComplete(obj) == [cb |-> "onComplete", chunk |-> Null, obj |-> obj]

onChunk(s, chunk) ==
  [updateStreamingMessage(s, chunk) EXCEPT !.hasReceivedContent = TRUE,
                                          !.log = Append(@, LogChunk(chunk))]

onComplete(s, metadata) ==
  LET t == [s EXCEPT !.log = Append(@, LogComplete(metadata))]
  IN IF metadata.type = "metadata"
       THEN [t EXCEPT !.streamMetadata =
               [present |-> TRUE, complexity |-> metadata.complexity,
                relationship_intensity |-> metadata.relationship_intensity,
                strategy |-> metadata.strategy]]
     ELSE IF metadata.documents # UndefSeq
       THEN [t EXCEPT !.streamDocuments = metadata.documents]
     ELSE IF metadata.type = "done"
       THEN IF t.hasReceivedContent
              THEN finalizeStreamingMessage(t,
                     IF t.streamMetadata.strategy # Undef THEN t.streamMetadata.strategy ELSE "unknown",
                     t.streamDocuments, t.streamMetadata)
              ELSE t
     ELSE t

\* ------------------------------------------------------------------------
\* api.queryStream: the frame decoder
\* ------------------------------------------------------------------------
\* the if/else chain on a parsed record; `thrown` when it throws
DispatchRecord(s, parsed) ==
  IF parsed.type = "content" /\ Truthy(parsed.content)
    THEN [thrown |-> FALSE, s |-> onChunk(s, parsed.content)]
  ELSE IF parsed.type = "metadata"
    THEN [thrown |-> FALSE, s |-> onComplete(s, parsed)]
  ELSE IF parsed.type = "documents"
    THEN [thrown |-> FALSE, s |-> onComplete(s, [EmptyObj EXCEPT !.documents = parsed.documents])]
  ELSE IF parsed.type = "done"
    THEN [thrown |-> FALSE, s |-> s]
  ELSE IF parsed.type = "error"
    THEN [thrown |-> TRUE, s |-> s]
  ELSE IF Truthy(parsed.chunk)
    THEN [thrown |-> FALSE, s |-> onChunk(s, parsed.chunk)]
  ELSE IF parsed.inner
    THEN [thrown |-> FALSE, s |-> onComplete(s, InnerMetadata(parsed))]
  ELSE [thrown |-> FALSE, s |-> s]

\* a variant that drops a payload that does not parse
ProcessDataDropsMalformed(s, data) ==
  LET p == JSONParse(data)
      d == DispatchRecord(s, p.obj)
  IN IF ~p.ok THEN s
     ELSE IF d.thrown THEN onChunk(d.s, data)
     ELSE d.s

\* the try/catch around JSON.parse and the dispatch
ProcessData(s, data) ==
  LET p == JSONParse(data)
      d == DispatchRecord(s, p.obj)
  IN IF ~p.ok THEN onChunk(s, data)
     ELSE IF d.thrown THEN onChunk(d.s, data)
     ELSE d.s

\* the body of `for (const line of lines)`
ProcessLine(s, line) ==
  LET trimmedLine == Trim(line)
      data == SubSeq(trimmedLine, Len(DataPrefix) + 1, Len(trimmedLine))
  IN IF trimmedLine = <<>> THEN s
     ELSE IF StartsWith(trimmedLine, DataPrefix)
       THEN IF data = DoneSentinel THEN s ELSE ProcessData(s, data)
     ELSE onChunk(s, trimmedLine)

RECURSIVE ProcessLines(_, _)
ProcessLines(s, lines) ==
  IF lines = <<>> THEN s ELSE ProcessLines(ProcessLine(s, Head(lines)), Tail(lines))

\* a variant that forgets the unfinished line
CarryOverLost(lines) == <<>>

\* lines.pop() || ""
CarryOver(lines) == Last(lines)

\* one iteration of the read loop on a decoded buffer `value`
ProcessBuffer(s, value) ==
  LET lines == SplitLines(s.buffer \o value)
  IN [ProcessLines(s, Front(lines)) EXCEPT !.buffer = CarryOver(lines)]

\* after the loop: the rest of the buffer, then onComplete({})
EndOfStream(s) ==
  LET t == IF Trim(s.buffer) # <<>> THEN onChunk(s, Trim(s.buffer)) ELSE s
  IN onComplete(t, EmptyObj)

\* ------------------------------------------------------------------------
\* Inputs
\* ------------------------------------------------------------------------
Questions == {<<"q", "1">>, <<"q", "2">>}
\* the questions of the n-th submission: the two questions are
\* interchangeable, so the first submission of a session asks the first
QuestionsOfTurn(n) == IF n = 1 THEN {<<"q", "1">>} ELSE Questions

Line(payload) == DataPrefix \o payload \o <<"\n">>

\* the lines a backend may send
CatalogueLines ==
  { Line(PayloadContent("a")), Line(PayloadContent("b")),
    Line(PayloadMetadata), Line(PayloadDone), Line(PayloadError),
    Line(PayloadChunk("a")), Line(PayloadLegacyMetadata), Line(PayloadMalformed),
    Line(DoneSentinel), <<"h", "i", "\n">> }

RECURSIVE TextsOfLines(_)
TextsOfLines(n) ==
  IF n = 0 THEN {<<>>}
  ELSE {t \o l : t \in TextsOfLines(n - 1), l \in CatalogueLines}

\* stream texts of at most n lines, with and without the final newline
StreamTexts(n) ==
  LET terminated == UNION {TextsOfLines(k) : k \in 1..n}
  IN terminated \cup {Front(t) : t \in terminated}

\* a well-formed answer: two content records, metadata, done
ScenarioAnswer ==
  Line(PayloadContent("a")) \o Line(PayloadContent("b")) \o Line(PayloadMetadata) \o Line(PayloadDone)
\* an answer interrupted by an error record
ScenarioError ==
  Line(PayloadContent("a")) \o Line(PayloadError) \o Line(PayloadContent("b"))
\* an answer in the legacy format
ScenarioLegacy ==
  Line(PayloadChunk("a")) \o Line(PayloadLegacyMetadata) \o Line(PayloadDone)
\* an answer without content
ScenarioNoContent == Line(PayloadMetadata) \o Line(PayloadDone)

\* blank lines, leading blanks and CRLF line ends; an empty content record
\* and a documents record
ScenarioWhitespace ==
  <<" ", "\n">> \o <<" ">> \o DataPrefix \o PayloadContent("b") \o <<"\r", "\n">>
  \o Line(PayloadContentEmpty) \o Line(PayloadDocuments) \o <<"\n">>

\* a record that does not parse between two content records
ScenarioMalformed ==
  Line(PayloadContent("a")) \o Line(PayloadMalformed) \o Line(PayloadContent("b"))

ScenarioTexts ==
  {ScenarioAnswer, ScenarioError, ScenarioLegacy, ScenarioNoContent, ScenarioWhitespace,
   ScenarioMalformed}

\* the answers of a session
SessionTexts == {ScenarioAnswer, ScenarioError, ScenarioNoContent}

HttpStatuses == {404, 503}
\* errorData.detail || "Query failed"
ServerDetails == {"Query failed", "timeout of 120000ms exceeded"}

\* ------------------------------------------------------------------------
\* State
\* ------------------------------------------------------------------------
VARIABLES
  \* useChatStore
  messages, isLoading, error, currentStreamingMessage, currentStreamingMessageId,
  \* persist: the state last handed to the storage
  persisted,
  \* ChatContainer: useState
  retryQuestion,
  \* the running handleSubmit: its position, its arguments, the value of
  \* currentStreamingMessage in its closure, and its locals
  pc, question, isRetry, closureStreaming,
  streamMetadata, streamDocuments, hasReceivedContent,
  \* the running queryStream: the text the backend sends, how much of it has
  \* been read, and the carry-over buffer
  text, pos, buffer,
  \* history: the callbacks made by the running queryStream, the next fresh
  \* id, the number of messages sealed by finalizeStreamingMessage, of turns
  \* started, of fetch calls of the turn, how the last turn ended and with
  \* which error, whether clearMessages ran during the turn, and the
  \* in-progress content that the last startStreamingMessage replaced, the
  \* id it returned, and whether a buffer read so far ended inside a line and
  \* whether one ended right after a newline
  log, nextId, sealed, turns, fetchCalls, outcome, turnError, cleared, replaced,
  streamId, cutMidLine, cutOnBoundary

storeVars == <<messages, isLoading, error, currentStreamingMessage, currentStreamingMessageId,
               persisted>>
turnVars == <<retryQuestion, pc, question, isRetry, closureStreaming,
              streamMetadata, streamDocuments, hasReceivedContent,
              text, pos, buffer, log, nextId, sealed, turns, fetchCalls,
              outcome, turnError, cleared, replaced, streamId, cutMidLine, cutOnBoundary>>

\* the state the store operations and callbacks act on
Page ==
  [messages |-> messages, isLoading |-> isLoading, error |-> error,
   currentStreamingMessage |-> currentStreamingMessage,
   currentStreamingMessageId |-> currentStreamingMessageId,
   streamMetadata |-> streamMetadata, streamDocuments |-> streamDocuments,
   hasReceivedContent |-> hasReceivedContent,
   buffer |-> buffer, log |-> log, nextId |-> nextId, sealed |-> sealed]

\* the initial state of the store
InitialStore ==
  [messages |-> <<>>, isLoading |-> FALSE, error |-> Undef,
   currentStreamingMessage |-> Null, currentStreamingMessageId |-> NoId]

\* a variant that persists every field of the state
partializeWholeState(state) ==
  [messages |-> state.messages, isLoading |-> state.isLoading, error |-> state.error,
   currentStreamingMessage |-> state.currentStreamingMessage,
   currentStreamingMessageId |-> state.currentStreamingMessageId]

\* partialize: the part of the state that is persisted
partialize(state) == [messages |-> state.messages]

\* persist, on load: the initial state overwritten by the stored fields
Rehydrate(stored) ==
  [f \in DOMAIN InitialStore |-> IF f \in DOMAIN stored THEN stored[f] ELSE InitialStore[f]]

\* set(...), after which persist hands partialize(state) to the storage
Commit(s) ==
  /\ messages' = s.messages
  /\ persisted' = partialize(s)
  /\ isLoading' = s.isLoading
  /\ error' = s.error
  /\ currentStreamingMessage' = s.currentStreamingMessage
  /\ currentStreamingMessageId' = s.currentStreamingMessageId
  /\ streamMetadata' = s.streamMetadata
  /\ streamDocuments' = s.streamDocuments
  /\ hasReceivedContent' = s.hasReceivedContent
  /\ buffer' = s.buffer
  /\ log' = s.log
  /\ nextId' = s.nextId
  /\ sealed' = s.sealed

InitPage ==
  /\ messages = <<>>
  /\ persisted = partialize(InitialStore)
  /\ isLoading = FALSE
  /\ error = Undef
  /\ currentStreamingMessage = Null
  /\ currentStreamingMessageId = NoId
  /\ retryQuestion = Null
  /\ pc = "idle"
  /\ question = Null
  /\ isRetry = FALSE
  /\ closureStreaming = Null
  /\ streamMetadata = EmptyMetadata
  /\ streamDocuments = <<>>
  /\ hasReceivedContent = FALSE
  /\ text = <<>>
  /\ pos = 0
  /\ buffer = <<>>
  /\ log = <<>>
  /\ nextId = 1
  /\ sealed = 0
  /\ turns = 0
  /\ fetchCalls = 0
  /\ outcome = "none"
  /\ turnError = NoError
  /\ cleared = FALSE
  /\ replaced = Null
  /\ streamId = NoId
  /\ cutMidLine = FALSE
  /\ cutOnBoundary = FALSE

\* ------------------------------------------------------------------------
\* handleSubmit
\* ------------------------------------------------------------------------
\* a variant that appends the user message in a retry too
AppendsUserMessageAlways(r) == TRUE

\* if (!isRetry): the user message is appended unless the run is a retry
AppendsUserMessage(r) == ~r

\* from the call to the first await: setError(null), setRetryQuestion(null),
\* addMessage unless a retry, setLoading(true), startStreamingMessage, the
\* locals, and the fetch call of queryStream
HandleSubmitStart(q, r) ==
  LET s1 == setError(Page, Undef)
      s2 == IF AppendsUserMessage(r) THEN addMessage(s1, "user", q) ELSE s1
      s3 == setLoading(s2, TRUE)
      s4 == startStreamingMessage(s3)
  IN /\ Commit([s4 EXCEPT !.streamMetadata = EmptyMetadata,
                          !.streamDocuments = <<>>,
                          !.hasReceivedContent = FALSE,
                          !.buffer = <<>>,
                          !.log = <<>>])
     /\ retryQuestion' = Null
     /\ question' = q
     /\ isRetry' = r
     /\ closureStreaming' = currentStreamingMessage
     /\ replaced' = s3.currentStreamingMessage
     /\ streamId' = s4.currentStreamingMessageId
     /\ cutMidLine' = FALSE
     /\ cutOnBoundary' = FALSE
     /\ pc' = "fetch"
     /\ text' = <<>>
     /\ pos' = 0
     /\ turns' = turns + 1
     /\ fetchCalls' = 1
     /\ outcome' = "running"
     /\ turnError' = NoError
     /\ cleared' = FALSE

\* InputBox: onSubmit, disabled while isLoading
Submit(q, maxTurns) ==
  /\ pc = "idle"
  /\ ~isLoading
  /\ turns < maxTurns
  /\ HandleSubmitStart(q, FALSE)

\* the retry button: shown with the error banner while retryQuestion is set,
\* disabled while isLoading
handleRetry(maxTurns) ==
  /\ pc = "idle"
  /\ error # Undef
  /\ ~isLoading
  /\ retryQuestion # Null
  /\ turns < maxTurns
  /\ HandleSubmitStart(retryQuestion, TRUE)

\* the catch block and the finally block
HandleCatch(s, err, closure) ==
  LET errorMessage == handleAPIError(err)
      s1 == setError(s, errorMessage)
      s2 == IF closure # Null
              THEN finalizeStreamingMessage(s1, Undef, UndefSeq, NoMetadata)
              ELSE s1
      s3 == addMessage(s2, "assistant", <<"sorry: ", errorMessage>>)
  IN setLoading(s3, FALSE)

\* queryStream rejects with err (its catch calls onError, which rethrows)
Fail(s, err) ==
  /\ Commit(HandleCatch(s, err, closureStreaming))
  /\ retryQuestion' = IF isRetryableError(err) THEN question ELSE retryQuestion
  /\ pc' = "idle"
  /\ outcome' = "failed"
  /\ turnError' = err
  /\ UNCHANGED <<question, isRetry, closureStreaming, text, pos, turns, fetchCalls, cleared, replaced, streamId, cutMidLine, cutOnBoundary>>

\* fetch rejects: no response
FetchReject ==
  /\ pc = "fetch"
  /\ Fail(Page, FetchTypeError)

\* fetch resolves with a response that is not ok
FetchNotOk(status, detail) ==
  /\ pc = "fetch"
  /\ Fail(Page, APIError(detail, status))

\* fetch resolves with a response whose body will deliver one of `texts`
FetchOk(texts) ==
  /\ pc = "fetch"
  /\ pc' = "read"
  /\ text' \in texts
  /\ pos' = 0
  /\ UNCHANGED storeVars
  /\ UNCHANGED <<retryQuestion, question, isRetry, closureStreaming, streamMetadata,
                 streamDocuments, hasReceivedContent, buffer, log, nextId, sealed,
                 turns, fetchCalls, outcome, turnError, cleared, replaced, streamId, cutMidLine, cutOnBoundary>>

\* reader.read() resolves with the next k characters
ReadBuffer(k) ==
  /\ pc = "read"
  /\ k >= 1
  /\ pos + k <= Len(text)
  /\ Commit(ProcessBuffer(Page, SubSeq(text, pos + 1, pos + k)))
  /\ pos' = pos + k
  /\ cutMidLine' = (cutMidLine \/ text[pos + k] # "\n")
  /\ cutOnBoundary' = (cutOnBoundary \/ text[pos + k] = "\n")
  /\ UNCHANGED <<retryQuestion, pc, question, isRetry, closureStreaming, text,
                 turns, fetchCalls, outcome, turnError, cleared, replaced, streamId>>

\* reader.read() resolves with done: the end of queryStream, then finally
ReadDone ==
  /\ pc = "read"
  /\ pos = Len(text)
  /\ Commit(setLoading(EndOfStream(Page), FALSE))
  /\ pc' = "idle"
  /\ outcome' = "success"
  /\ UNCHANGED <<retryQuestion, question, isRetry, closureStreaming, text, pos,
                 turns, fetchCalls, turnError, cleared, replaced, streamId, cutMidLine, cutOnBoundary>>

\* reader.read() rejects: the connection drops
ReadReject ==
  /\ pc = "read"
  /\ Fail(Page, FetchTypeError)

\* Header: handleClearHistory, confirmed
handleClearHistory ==
  /\ Len(messages) # 0
  /\ Commit(clearMessages(Page))
  /\ cleared' = TRUE
  /\ UNCHANGED <<retryQuestion, pc, question, isRetry, closureStreaming, text, pos,
                 turns, fetchCalls, outcome, turnError, replaced, streamId, cutMidLine, cutOnBoundary>>

\* the close button of the error banner: setError(null)
DismissError ==
  /\ error # Undef
  /\ Commit(setError(Page, Undef))
  /\ UNCHANGED <<retryQuestion, pc, question, isRetry, closureStreaming, text, pos,
                 turns, fetchCalls, outcome, turnError, cleared, replaced, streamId, cutMidLine, cutOnBoundary>>

\* the page is reloaded while the storage holds `stored`: the running
\* handleSubmit is gone, the component state is new, the store is rebuilt
\* from its initial state and the stored fields
Reload(stored) ==
  LET r == Rehydrate(stored)
  IN /\ Commit([Page EXCEPT !.messages = r.messages,
                            !.isLoading = r.isLoading,
                            !.error = r.error,
                            !.currentStreamingMessage = r.currentStreamingMessage,
                            !.currentStreamingMessageId = r.currentStreamingMessageId,
                            !.streamMetadata = EmptyMetadata,
                            !.streamDocuments = <<>>,
                            !.hasReceivedContent = FALSE,
                            !.buffer = <<>>])
     /\ retryQuestion' = Null
     /\ pc' = "idle"
     /\ question' = Null
     /\ isRetry' = FALSE
     /\ closureStreaming' = Null
     /\ text' = <<>>
     /\ pos' = 0
     /\ outcome' = "reloaded"
     /\ turnError' = NoError
     /\ UNCHANGED <<turns, fetchCalls, cleared, replaced, streamId, cutMidLine, cutOnBoundary>>

\* ------------------------------------------------------------------------
\* retryWithBackoff(fn, retries)
\* ------------------------------------------------------------------------
MAX_RETRIES == 2
RETRY_DELAY == 1000
\* the model's clock stops here
MaxClock == 8000

\* the errors the wrapped operation may raise: an axios error without a
\* response, one with a 503, one with a 404, and an APIError
AxiosNetworkError == MkError("AxiosError", TRUE, FALSE, 0, "ERR_NETWORK", "Request failed")
AxiosStatusError(status) == MkError("AxiosError", TRUE, TRUE, status, "ERR_BAD_RESPONSE", "Request failed")
FnErrors == {AxiosNetworkError, AxiosStatusError(503), AxiosStatusError(404), APIError("server error", 503)}

VARIABLES
  \* the locals of retryWithBackoff: where it is, its argument `retries`,
  \* the loop variable, lastError, and the error it threw
  rpc, retries, attempt, lastError, thrown,
  \* the clock (ms) and the time at which the pending sleep() resolves
  now, wakeAt,
  \* history: the number of calls of fn, the errors it raised, the delays
  \* handed to sleep(), and for each the time the sleep started and the time
  \* the next attempt started
  invocations, raised, sleeps, sleepStart, sleepEnd

retryVars == <<rpc, retries, attempt, lastError, thrown, now, wakeAt,
               invocations, raised, sleeps, sleepStart, sleepEnd>>

InitRetryIdle ==
  /\ rpc = "off"
  /\ retries = MAX_RETRIES
  /\ attempt = 0
  /\ lastError = NoError
  /\ thrown = NoError
  /\ now = 0
  /\ wakeAt = 0
  /\ invocations = 0
  /\ raised = <<>>
  /\ sleeps = <<>>
  /\ sleepStart = <<>>
  /\ sleepEnd = <<>>

\* a call retryWithBackoff(fn, r), about to make its first attempt
InitRetry ==
  /\ rpc = "call"
  /\ retries \in 0..MaxRetriesArg
  /\ attempt = 0
  /\ lastError = NoError
  /\ thrown = NoError
  /\ now = 0
  /\ wakeAt = 0
  /\ invocations = 0
  /\ raised = <<>>
  /\ sleeps = <<>>
  /\ sleepStart = <<>>
  /\ sleepEnd = <<>>

RECURSIVE Pow2(_)
\* Math.pow(2, n)
Pow2(n) == IF n = 0 THEN 1 ELSE 2 * Pow2(n - 1)

\* a variant without the doubling
BackoffDelayFlat(k) == RETRY_DELAY

\* RETRY_DELAY * Math.pow(2, attempt)
BackoffDelay(k) == RETRY_DELAY * Pow2(k)

\* a variant that gives up one attempt early
GivesUpEarly(err, k, r) == ~isRetryableError(err) \/ k + 1 >= r

\* !isRetryableError(error) || attempt === retries
GivesUp(err, k, r) == ~isRetryableError(err) \/ k = r

\* a variant that throws a wrapper made from the error's message
RethrowWrapped(err) ==
  APIError(handleAPIError(err), IF err.hasResponse THEN err.status ELSE 0)

\* `throw error` in the catch block
Rethrow(err) == err

\* `return await fn()` returns
FnReturns ==
  /\ rpc = "call"
  /\ rpc' = "returned"
  /\ invocations' = invocations + 1
  /\ UNCHANGED <<retries, attempt, lastError, thrown, now, wakeAt, raised, sleeps,
                 sleepStart, sleepEnd>>

\* fn() rejects with err: the catch block, up to the throw or the sleep
FnThrows(err) ==
  /\ rpc = "call"
  /\ invocations' = invocations + 1
  /\ raised' = Append(raised, err)
  /\ lastError' = err
  /\ IF GivesUp(err, attempt, retries)
       THEN /\ rpc' = "thrown"
            /\ thrown' = Rethrow(err)
            /\ UNCHANGED <<wakeAt, sleeps, sleepStart>>
       ELSE /\ rpc' = "sleep"
            /\ wakeAt' = now + BackoffDelay(attempt)
            /\ sleeps' = Append(sleeps, BackoffDelay(attempt))
            /\ sleepStart' = Append(sleepStart, now)
            /\ UNCHANGED thrown
  /\ UNCHANGED <<retries, attempt, now, sleepEnd>>

\* the timer of sleep() fires: attempt++, the loop condition, and
\* `throw lastError` after the loop
SleepResolves ==
  /\ rpc = "sleep"
  /\ now >= wakeAt
  /\ attempt' = attempt + 1
  /\ sleepEnd' = Append(sleepEnd, now)
  /\ IF attempt + 1 <= retries
       THEN rpc' = "call" /\ UNCHANGED thrown
       ELSE rpc' = "thrown" /\ thrown' = lastError
  /\ UNCHANGED <<retries, lastError, now, wakeAt, invocations, raised, sleeps, sleepStart>>

\* time passes
Tick ==
  /\ rpc \in {"call", "sleep"}
  /\ now + RETRY_DELAY <= MaxClock
  /\ now' = now + RETRY_DELAY
  /\ UNCHANGED <<rpc, retries, attempt, lastError, thrown, wakeAt, invocations, raised,
                 sleeps, sleepStart, sleepEnd>>

\* ------------------------------------------------------------------------
\* api.query, api.getStats, api.healthCheck: retryWithBackoff around a
\* request of apiClient
\* ------------------------------------------------------------------------
\* the axios error of a request that exceeded the timeout of the client
AxiosTimeoutError ==
  MkError("AxiosError", TRUE, FALSE, 0, "ECONNABORTED", "timeout of 120000ms exceeded")
\* the axios error of a response with a status and a detail in its body
AxiosDetailError(status, detail) == [AxiosStatusError(status) EXCEPT !.detail = detail]

\* the failures of a request: no response, a timeout, the statuses 500, 503,
\* 429 and 404, and a 408 whose body says "timeout"
RequestErrors ==
  { AxiosNetworkError, AxiosTimeoutError, AxiosStatusError(500), AxiosStatusError(503),
    AxiosStatusError(429), AxiosStatusError(404),
    AxiosDetailError(408, "timeout of 120000ms exceeded") }

\* the response interceptor of apiClient: every failure of a request is
\* replaced by new APIError(handleAPIError(error), error.response?.status)
ResponseInterceptor(err) ==
  APIError(handleAPIError(err), IF err.hasResponse THEN err.status ELSE 0)

VARIABLES
  \* history: the failures of the requests, before the interceptor
  causes

apiVars == <<causes>>

InitApiIdle == causes = <<>>

\* a call api.query(question), api.getStats() or api.healthCheck(): the
\* default retries
InitApi ==
  /\ rpc = "call"
  /\ retries = MAX_RETRIES
  /\ attempt = 0
  /\ lastError = NoError
  /\ thrown = NoError
  /\ now = 0
  /\ wakeAt = 0
  /\ invocations = 0
  /\ raised = <<>>
  /\ sleeps = <<>>
  /\ sleepStart = <<>>
  /\ sleepEnd = <<>>
  /\ causes = <<>>

\* the request succeeds: response.data is returned
RequestSucceeds == FnReturns /\ UNCHANGED causes

\* the request fails with err: the interceptor's error reaches the catch
\* block of retryWithBackoff
RequestFails(err) ==
  /\ FnThrows(ResponseInterceptor(err))
  /\ causes' = Append(causes, err)

\* ------------------------------------------------------------------------
\* isRetryableError on an arbitrary error value
\* ------------------------------------------------------------------------
ErrorNames == {"AxiosError", "SyntaxError"}
ErrorStatuses == {400, 404, 429, 499, 500, 503}
ErrorCodes == {Undef, "ECONNABORTED", "ERR_NETWORK"}

ErrorValues ==
  {MkError(n, rq, rs, IF rs THEN st ELSE 0, c, m) :
     n \in ErrorNames, rq \in BOOLEAN, rs \in BOOLEAN, st \in ErrorStatuses,
     c \in ErrorCodes, m \in MessagesWithTimeout \cup MessagesWithoutTimeout}

VARIABLES
  \* the argument of isRetryableError, whether it has been called, its result
  errorArg, classified, retryable

classifyVars == <<errorArg, classified, retryable>>

InitClassifyIdle ==
  /\ errorArg = NoError
  /\ classified = FALSE
  /\ retryable = FALSE

InitClassify ==
  /\ errorArg \in ErrorValues
  /\ classified = FALSE
  /\ retryable = FALSE

Classify ==
  /\ ~classified
  /\ classified' = TRUE
  /\ retryable' = isRetryableError(errorArg)
  /\ UNCHANGED errorArg

\* ------------------------------------------------------------------------
\* customStorage.setItem
\* ------------------------------------------------------------------------
\* 4.5 * 1024 * 1024
MAX_STORAGE_SIZE == (9 * 1024 * 1024) \div 2

\* the length of {"state":{"messages":[]},"version":0}
EnvelopeLength == 36

\* the serialized lengths a message may have: 1 MiB, 2 MiB, 5 MiB
MessageSizes == {1024 * 1024, 2 * 1024 * 1024, 5 * 1024 * 1024}

\* the message lists of at most n messages; a message is its position in the
\* list given to setItem and its serialized length
MessageLists(n) ==
  UNION {{[i \in 1..k |-> [id |-> i, size |-> f[i]]] : f \in [1..k -> MessageSizes]} : k \in 0..n}

RECURSIVE SumSizes(_)
SumSizes(msgs) == IF msgs = <<>> THEN 0 ELSE Head(msgs).size + SumSizes(Tail(msgs))

\* JSON.stringify(state).length: the envelope, the messages, the commas
SerializedLength(msgs) ==
  EnvelopeLength + SumSizes(msgs) + (IF Len(msgs) > 1 THEN Len(msgs) - 1 ELSE 0)

RECURSIVE TrimMessagesNewestFirst(_)
\* a variant that drops the newest message
TrimMessagesNewestFirst(msgs) ==
  IF SerializedLength(msgs) > MAX_STORAGE_SIZE /\ Len(msgs) > 1
    THEN TrimMessagesNewestFirst(Front(msgs))
    ELSE msgs

\* the while loop: drop the oldest message while over the cap and more than one
RECURSIVE TrimMessages(_)
TrimMessages(msgs) ==
  IF SerializedLength(msgs) > MAX_STORAGE_SIZE /\ Len(msgs) > 1
    THEN TrimMessages(Tail(msgs))
    ELSE msgs

\* the value of the first localStorage.setItem of a call
FirstWrite(msgs) ==
  IF SerializedLength(msgs) > MAX_STORAGE_SIZE THEN TrimMessages(msgs) ELSE msgs

\* the value of the localStorage.setItem in the catch block
RetryWrite(msgs) == msgs

\* what localStorage.setItem / removeItem may do
WriteOutcomes == {"ok", "QuotaExceededError", "Error"}
RemoveOutcomes == {"ok", "Error"}
ReadOutcomes == {"ok", "Error"}

NoValue == [present |-> FALSE, messages |-> <<>>]
Stored(msgs) == [present |-> TRUE, messages |-> msgs]

VARIABLES
  \* the messages of the state handed to setItem, and whether it has run
  persistArg, setItemDone,
  \* the messages list of the chat store whose serialization is handed over
  storeMessages,
  \* the entry "chat-storage" of localStorage
  storedValue,
  \* which function of customStorage has been called, and what getItem
  \* returned
  called, returned,
  \* history: the values handed to localStorage.setItem by the call with
  \* their outcomes, the outcomes of the localStorage.removeItem calls, and
  \* whether the called function threw
  writes, removals, escaped

storageVars == <<persistArg, setItemDone, storeMessages, storedValue, called, returned, writes,
                 removals, escaped>>

InitStorageIdle ==
  /\ persistArg = <<>>
  /\ setItemDone = FALSE
  /\ storeMessages = <<>>
  /\ storedValue = NoValue
  /\ called = "none"
  /\ returned = NoValue
  /\ writes = <<>>
  /\ removals = <<>>
  /\ escaped = FALSE

InitStorage ==
  /\ persistArg \in MessageLists(MaxMsgs)
  /\ setItemDone = FALSE
  /\ storeMessages = persistArg
  /\ storedValue \in {NoValue, Stored(<<[id |-> 0, size |-> 1024]>>)}
  /\ called = "none"
  /\ returned = NoValue
  /\ writes = <<>>
  /\ removals = <<>>
  /\ escaped = FALSE

\* a variant without the inner try/catch
RetryEscapesUnguarded(rm, o2) == rm # "ok" \/ o2 # "ok"

\* the inner try/catch of setItem: what removeItem or the second setItem
\* throws is caught and logged
RetryEscapes(rm, o2) == FALSE

\* a variant in which the list that is trimmed is the store's own list
StoreMessagesAfterSetItemShared(inStore, trimmed) == trimmed

\* setItem works on the string `value` and on the object JSON.parse builds
\* from it; slice(1) makes new arrays of that object's list, so the list of
\* the store stays as it is
StoreMessagesAfterSetItem(inStore, trimmed) == inStore

\* customStorage.setItem("chat-storage", value): o1 is what the first
\* localStorage.setItem does, rm what removeItem does, o2 what the second
\* setItem does
setItem(o1, rm, o2) ==
  LET first == FirstWrite(persistArg)
      second == RetryWrite(persistArg)
  IN /\ called = "none"
     /\ called' = "setItem"
     /\ setItemDone' = TRUE
     /\ storeMessages' = StoreMessagesAfterSetItem(storeMessages, first)
     /\ IF o1 = "ok"
          THEN /\ storedValue' = Stored(first)
               /\ writes' = <<[value |-> first, outcome |-> o1]>>
               /\ removals' = removals
               /\ escaped' = FALSE
        ELSE IF o1 = "QuotaExceededError"
          THEN /\ removals' = Append(removals, rm)
               /\ escaped' = RetryEscapes(rm, o2)
               /\ IF rm = "ok"
                    THEN /\ writes' = <<[value |-> first, outcome |-> o1],
                                        [value |-> second, outcome |-> o2]>>
                         /\ storedValue' = IF o2 = "ok" THEN Stored(second) ELSE NoValue
                    ELSE /\ writes' = <<[value |-> first, outcome |-> o1]>>
                         /\ storedValue' = storedValue
        ELSE /\ writes' = <<[value |-> first, outcome |-> o1]>>
             /\ removals' = removals
             /\ storedValue' = storedValue
             /\ escaped' = FALSE
     /\ UNCHANGED <<persistArg, returned>>

\* customStorage.getItem("chat-storage"): o is what localStorage.getItem
\* does; null is returned when it throws
getItem(o) ==
  /\ called = "none"
  /\ called' = "getItem"
  /\ returned' = IF o = "ok" THEN storedValue ELSE NoValue
  /\ escaped' = FALSE
  /\ UNCHANGED <<persistArg, setItemDone, storeMessages, storedValue, writes, removals>>

\* customStorage.removeItem("chat-storage"): o is what
\* localStorage.removeItem does
removeItem(o) ==
  /\ called = "none"
  /\ called' = "removeItem"
  /\ removals' = Append(removals, o)
  /\ storedValue' = IF o = "ok" THEN NoValue ELSE storedValue
  /\ escaped' = FALSE
  /\ UNCHANGED <<persistArg, setItemDone, storeMessages, returned, writes>>

\* ------------------------------------------------------------------------
\* persist options: serialize / deserialize
\* ------------------------------------------------------------------------
\* A timestamp is a Date or, in JSON, a string.  The time value of a Date is
\* day * 86400000 + ms milliseconds since the epoch, kept as the day number
\* and the millisecond of the day; an invalid Date (time value NaN) has
\* ms = -1.
DateValue(day, ms) == [isDate |-> TRUE, day |-> day, ms |-> ms, str |-> <<>>]
InvalidDate == DateValue(0, -1)

Digits == <<"0", "1", "2", "3", "4", "5", "6", "7", "8", "9">>
IsDigit(c) == \E n \in 1..10 : Digits[n] = c
DigitValue(c) == (CHOOSE n \in 1..10 : Digits[n] = c) - 1
Pad2(n) == <<Digits[((n \div 10) % 10) + 1], Digits[(n % 10) + 1]>>
Pad3(n) == <<Digits[((n \div 100) % 10) + 1]>> \o Pad2(n)
Pad4(n) == <<Digits[((n \div 1000) % 10) + 1]>> \o Pad3(n)

RECURSIVE NumberOf(_)
\* the number written by a sequence of digits
NumberOf(t) == IF t = <<>> THEN 0 ELSE 10 * NumberOf(Front(t)) + DigitValue(Last(t))

\* the civil date of a day number (proleptic Gregorian calendar, UTC)
CivilFromDays(day) ==
  LET z == day + 719468
      era == z \div 146097
      doe == z - era * 146097
      yoe == (doe - doe \div 1460 + doe \div 36524 - doe \div 146096) \div 365
      doy == doe - (365 * yoe + yoe \div 4 - yoe \div 100)
      mp == (5 * doy + 2) \div 153
      d == doy - (153 * mp + 2) \div 5 + 1
      m == IF mp < 10 THEN mp + 3 ELSE mp - 9
  IN [year |-> yoe + era * 400 + (IF m <= 2 THEN 1 ELSE 0), month |-> m, date |-> d]

\* the day number of a civil date
DaysFromCivil(year, month, date) ==
  LET y == IF month <= 2 THEN year - 1 ELSE year
      era == y \div 400
      yoe == y - era * 400
      doy == (153 * (IF month > 2 THEN month - 3 ELSE month + 9) + 2) \div 5 + date - 1
      doe == yoe * 365 + yoe \div 4 - yoe \div 100 + doy
  IN era * 146097 + doe - 719468

IsLeapYear(y) == y % 4 = 0 /\ (y % 100 # 0 \/ y % 400 = 0)
DaysInMonth(y, m) ==
  IF m = 2 THEN (IF IsLeapYear(y) THEN 29 ELSE 28)
  ELSE IF m \in {4, 6, 9, 11} THEN 30 ELSE 31

\* a variant that writes whole seconds only
toISOStringWholeSeconds(t) ==
  LET c == CivilFromDays(t.day)
      secs == t.ms \div 1000
  IN Pad4(c.year) \o <<"-">> \o Pad2(c.month) \o <<"-">> \o Pad2(c.date) \o <<"T">>
     \o Pad2(secs \div 3600) \o <<":">> \o Pad2((secs \div 60) % 60) \o <<":">>
     \o Pad2(secs % 60) \o <<".">> \o Pad3(0) \o <<"Z">>

\* Date.prototype.toISOString of a valid Date of the years 0000 to 9999:
\* YYYY-MM-DDTHH:mm:ss.sssZ
toISOString(t) ==
  LET c == CivilFromDays(t.day)
      secs == t.ms \div 1000
  IN Pad4(c.year) \o <<"-">> \o Pad2(c.month) \o <<"-">> \o Pad2(c.date) \o <<"T">>
     \o Pad2(secs \div 3600) \o <<":">> \o Pad2((secs \div 60) % 60) \o <<":">>
     \o Pad2(secs % 60) \o <<".">> \o Pad3(t.ms % 1000) \o <<"Z">>

\* new Date(iso): the Date of a text in the format above, an invalid Date
\* for any other text
NewDate(iso) ==
  LET shaped == /\ Len(iso) = 24
                /\ \A i \in 1..24 :
                     IF i \in {5, 8} THEN iso[i] = "-"
                     ELSE IF i = 11 THEN iso[i] = "T"
                     ELSE IF i \in {14, 17} THEN iso[i] = ":"
                     ELSE IF i = 20 THEN iso[i] = "."
                     ELSE IF i = 24 THEN iso[i] = "Z"
                     ELSE IsDigit(iso[i])
      year == NumberOf(SubSeq(iso, 1, 4))
      month == NumberOf(SubSeq(iso, 6, 7))
      date == NumberOf(SubSeq(iso, 9, 10))
      hours == NumberOf(SubSeq(iso, 12, 13))
      minutes == NumberOf(SubSeq(iso, 15, 16))
      seconds == NumberOf(SubSeq(iso, 18, 19))
      millis == NumberOf(SubSeq(iso, 21, 23))
  IN IF shaped /\ month \in 1..12 /\ date \in 1..DaysInMonth(year, month)
        /\ hours <= 23 /\ minutes <= 59 /\ seconds <= 59
       THEN DateValue(DaysFromCivil(year, month, date),
                      ((hours * 60 + minutes) * 60 + seconds) * 1000 + millis)
       ELSE InvalidDate

\* msg.timestamp instanceof Date ? msg.timestamp.toISOString() : msg.timestamp
SerializeTimestamp(ts) == IF ts.isDate THEN toISOString(ts) ELSE ts.str

\* toISOString throws a RangeError on an invalid Date
SerializeThrows(state) ==
  \E i \in DOMAIN state.messages :
     state.messages[i].timestamp.isDate /\ state.messages[i].timestamp.ms < 0

\* serialize: the JSON text, as the document it writes; a timestamp in it is
\* its text
serialize(state) ==
  [messages |-> [i \in DOMAIN state.messages |->
                   [id |-> state.messages[i].id,
                    timestamp |-> SerializeTimestamp(state.messages[i].timestamp)]],
   version |-> state.version]

\* deserialize
deserialize(str) ==
  [messages |-> [i \in DOMAIN str.messages |->
                   [id |-> str.messages[i].id,
                    timestamp |-> NewDate(str.messages[i].timestamp)]],
   version |-> str.version]

\* the instants of the timestamps: the epoch, the last millisecond of a leap
\* day, a leap day of a century year, the last second of a year, a day of
\* this year, the day after the missing leap day of 2100, and the last
\* millisecond of the year 9999
Instants ==
  { DateValue(0, 0), DateValue(789, 86399999), DateValue(11016, 999),
    DateValue(20088, 86399000), DateValue(20759, 45296789), DateValue(47541, 1000),
    DateValue(2932896, 86399999) }

\* the persisted states of 1 to n messages; a message is its position and
\* its timestamp
PersistedStates(n) ==
  UNION {{[messages |-> [i \in 1..k |-> [id |-> i, timestamp |-> f[i]]], version |-> 0] :
            f \in [1..k -> Instants]} : k \in 1..n}

EmptyPersisted == [messages |-> <<>>, version |-> 0]

VARIABLES
  \* where the round trip is, the state given to serialize, its output, the
  \* output of deserialize on that, and the output of serialize on that
  rtpc, rtState, rtSerialized, rtRestored, rtReserialized

roundTripVars == <<rtpc, rtState, rtSerialized, rtRestored, rtReserialized>>

InitRoundTripIdle ==
  /\ rtpc = "off"
  /\ rtState = EmptyPersisted
  /\ rtSerialized = EmptyPersisted
  /\ rtRestored = EmptyPersisted
  /\ rtReserialized = EmptyPersisted

InitRoundTrip ==
  /\ rtpc = "state"
  /\ rtState \in PersistedStates(MaxMsgs)
  /\ rtSerialized = EmptyPersisted
  /\ rtRestored = EmptyPersisted
  /\ rtReserialized = EmptyPersisted

\* serialize(state)
Serialize ==
  /\ rtpc = "state"
  /\ IF SerializeThrows(rtState)
       THEN rtpc' = "threw" /\ UNCHANGED rtSerialized
       ELSE rtpc' = "serialized" /\ rtSerialized' = serialize(rtState)
  /\ UNCHANGED <<rtState, rtRestored, rtReserialized>>

\* deserialize(str) on the output of serialize
Deserialize ==
  /\ rtpc = "serialized"
  /\ rtpc' = "restored"
  /\ rtRestored' = deserialize(rtSerialized)
  /\ UNCHANGED <<rtState, rtSerialized, rtReserialized>>

\* serialize on the restored state
Reserialize ==
  /\ rtpc = "restored"
  /\ IF SerializeThrows(rtRestored)
       THEN rtpc' = "threw" /\ UNCHANGED rtReserialized
       ELSE rtpc' = "reserialized" /\ rtReserialized' = serialize(rtRestored)
  /\ UNCHANGED <<rtState, rtSerialized, rtRestored>>

\* ------------------------------------------------------------------------
\* Specifications
\* ------------------------------------------------------------------------
vars == <<storeVars, turnVars, retryVars, classifyVars, storageVars, roundTripVars, apiVars>>

\* one turn, undisturbed, over every stream text of at most MaxLines lines
InitStream ==
  InitPage /\ InitRetryIdle /\ InitClassifyIdle /\ InitStorageIdle /\ InitRoundTripIdle
  /\ InitApiIdle

NextStream ==
  /\ \/ \E q \in Questions : Submit(q, 1)
     \/ FetchOk(StreamTexts(MaxLines) \cup ScenarioTexts)
     \/ \E k \in 1..(Len(text) - pos) : ReadBuffer(k)
     \/ ReadDone
  /\ UNCHANGED <<retryVars, classifyVars, storageVars, roundTripVars, apiVars>>

SpecStream == InitStream /\ [][NextStream]_vars

\* a session of at most MaxTurns turns with the user's other actions
NextSession ==
  /\ \/ \E q \in QuestionsOfTurn(turns + 1) : Submit(q, MaxTurns)
     \/ handleRetry(MaxTurns)
     \/ FetchReject
     \/ \E st \in HttpStatuses, d \in ServerDetails : FetchNotOk(st, d)
     \/ FetchOk(SessionTexts)
     \/ \E k \in 1..(Len(text) - pos) : ReadBuffer(k)
     \/ ReadDone
     \/ ReadReject
     \/ handleClearHistory
     \/ DismissError
  /\ UNCHANGED <<retryVars, classifyVars, storageVars, roundTripVars, apiVars>>

Spec == InitStream /\ [][NextSession]_vars

\* the answers of a session with reloads
ReloadTexts == {Line(PayloadContent("a")) \o Line(PayloadDone)}

\* what the storage holds at a reload: the state last handed to it, or
\* nothing when the write failed
StoredAtReload == {persisted, partialize(InitialStore)}

\* a session of at most MaxTurns turns in which the page may be reloaded at
\* any moment
NextPersist ==
  /\ \/ \E q \in QuestionsOfTurn(1) : Submit(q, MaxTurns)
     \/ FetchReject
     \/ FetchOk(ReloadTexts)
     \/ \E k \in 1..(Len(text) - pos) : ReadBuffer(k)
     \/ ReadDone
     \/ ReadReject
     \/ handleClearHistory
     \/ \E stored \in StoredAtReload : Reload(stored)
  /\ UNCHANGED <<retryVars, classifyVars, storageVars, roundTripVars, apiVars>>

SpecPersist == InitStream /\ [][NextPersist]_vars

\* the backend stops responding: the pending fetch or reader.read() never
\* settles.  queryStream gives fetch no signal and arms no timer, so nothing
\* of handleSubmit is left to run
Stall ==
  /\ pc \in {"fetch", "read"}
  /\ pc' = "stalled"
  /\ UNCHANGED storeVars
  /\ UNCHANGED <<retryQuestion, question, isRetry, closureStreaming, streamMetadata,
                 streamDocuments, hasReceivedContent, text, pos, buffer, log, nextId, sealed,
                 turns, fetchCalls, outcome, turnError, cleared, replaced, streamId,
                 cutMidLine, cutOnBoundary>>

\* the pending promise of queryStream settles and its continuation runs
Settle ==
  \/ FetchReject
  \/ ReadReject
  \/ \E st \in HttpStatuses, d \in ServerDetails : FetchNotOk(st, d)
  \/ FetchOk(ScenarioTexts)
  \/ \E k \in 1..(Len(text) - pos) : ReadBuffer(k)
  \/ ReadDone

\* one turn against a backend that may stop responding
NextFair ==
  /\ \/ \E q \in Questions : Submit(q, 1)
     \/ Settle
     \/ Stall
  /\ UNCHANGED <<retryVars, classifyVars, storageVars, roundTripVars, apiVars>>

\* a promise that can settle does settle, and the event loop runs its
\* continuation; the user is not obliged to submit
SpecFair == InitStream /\ [][NextFair]_vars /\ WF_<<storeVars, turnVars>>(Settle)

\* one call of retryWithBackoff
InitRetrySpec ==
  InitPage /\ InitRetry /\ InitClassifyIdle /\ InitStorageIdle /\ InitRoundTripIdle
  /\ InitApiIdle

NextRetry ==
  /\ \/ FnReturns
     \/ \E e \in FnErrors : FnThrows(e)
     \/ SleepResolves
     \/ Tick
  /\ UNCHANGED <<storeVars, turnVars, classifyVars, storageVars, roundTripVars, apiVars>>

SpecRetry == InitRetrySpec /\ [][NextRetry]_vars

\* one call of api.query, api.getStats or api.healthCheck
InitApiSpec ==
  InitPage /\ InitApi /\ InitClassifyIdle /\ InitStorageIdle /\ InitRoundTripIdle

NextApi ==
  /\ \/ RequestSucceeds
     \/ \E e \in RequestErrors : RequestFails(e)
     \/ SleepResolves /\ UNCHANGED causes
     \/ Tick /\ UNCHANGED causes
  /\ UNCHANGED <<storeVars, turnVars, classifyVars, storageVars, roundTripVars>>

SpecApi == InitApiSpec /\ [][NextApi]_vars

\* one call of isRetryableError
InitClassifySpec ==
  InitPage /\ InitRetryIdle /\ InitClassify /\ InitStorageIdle /\ InitRoundTripIdle
  /\ InitApiIdle

NextClassify ==
  Classify /\ UNCHANGED <<storeVars, turnVars, retryVars, storageVars, roundTripVars, apiVars>>

SpecClassify == InitClassifySpec /\ [][NextClassify]_vars

\* one call of a function of customStorage
InitStorageSpec ==
  InitPage /\ InitRetryIdle /\ InitClassifyIdle /\ InitStorage /\ InitRoundTripIdle
  /\ InitApiIdle

NextStorage ==
  /\ \/ \E o1 \in WriteOutcomes, rm \in RemoveOutcomes, o2 \in WriteOutcomes : setItem(o1, rm, o2)
     \/ \E o \in ReadOutcomes : getItem(o)
     \/ \E o \in RemoveOutcomes : removeItem(o)
  /\ UNCHANGED <<storeVars, turnVars, retryVars, classifyVars, roundTripVars, apiVars>>

SpecStorage == InitStorageSpec /\ [][NextStorage]_vars

\* one round trip of the persisted state through serialize and deserialize
InitRoundTripSpec ==
  InitPage /\ InitRetryIdle /\ InitClassifyIdle /\ InitStorageIdle /\ InitRoundTrip
  /\ InitApiIdle

NextRoundTrip ==
  /\ \/ Serialize
     \/ Deserialize
     \/ Reserialize
  /\ UNCHANGED <<storeVars, turnVars, retryVars, classifyVars, storageVars, apiVars>>

SpecRoundTrip == InitRoundTripSpec /\ [][NextRoundTrip]_vars

\* ------------------------------------------------------------------------
\* Properties
\* ------------------------------------------------------------------------
RECURSIVE ConcatChunks(_)
\* the concatenation of the arguments of the onChunk calls of a history
ConcatChunks(l) ==
  IF l = <<>> THEN <<>>
  ELSE (IF Head(l).cb = "onChunk" THEN Head(l).chunk ELSE <<>>) \o ConcatChunks(Tail(l))

\* a page on which no callback has been made yet
FreshPage == [Page EXCEPT !.log = <<>>, !.buffer = <<>>]
\* the callbacks made when t arrives in one buffer, before and after the end
OneBufferLog(t) == ProcessBuffer(FreshPage, t).log
WholeTextLog(t) == EndOfStream(ProcessBuffer(FreshPage, t)).log

TurnSucceeded == pc = "idle" /\ outcome = "success"
TurnFailed == pc = "idle" /\ outcome = "failed"

\* C1: when the stream delivers content records, a metadata record and a
\* done record and ends, then after handleSubmit the last message is the
\* assistant message with the concatenated content, the strategy and the
\* complexity of the metadata record, and no in-progress message remains.
C1_SuccessfulTurnIsSealed ==
  (TurnSucceeded /\ text = ScenarioAnswer) =>
     /\ messages # <<>>
     /\ Last(messages).role = "assistant"
     /\ Last(messages).content = <<"a", "b">>
     /\ Last(messages).strategy = "hybrid_traditional"
     /\ Last(messages).metadata.complexity = "0.4"
     /\ currentStreamingMessage = Null
     /\ currentStreamingMessageId = NoId

\* C2: however the stream text is cut into buffers, the callbacks made by
\* queryStream, with their arguments, are those made when the text read so
\* far arrives in one buffer; at the end of the stream they are those of the
\* whole text in one buffer.
C2_SplitInvariance ==
  /\ pc = "read" => log = OneBufferLog(SubSeq(text, 1, pos))
  /\ TurnSucceeded => log = WholeTextLog(text)

\* a newline-terminated answer of several records was read to its end in
\* buffers of which one ended inside a line and one on a line boundary
C2_Witness ==
  /\ TurnSucceeded
  /\ text = ScenarioAnswer
  /\ cutMidLine
  /\ cutOnBoundary
  /\ Len(log) = 4

C4_ErrorRecordIsTerminal ==
  (pc = "idle" /\ outcome # "none" /\ text = ScenarioError) =>
     /\ outcome = "failed"
     /\ turnError = PlainError("boom")
     /\ log = <<LogChunk(<<"a">>)>>

\* C5: startStreamingMessage runs only when there is no in-progress message,
\* so it never replaces the content of an unsealed message.
C5_BeginOnlyWhenIdle == replaced = Null

\* C6: a submission whose network call fails with no response is retried
\* automatically, and when the failure is surfaced the assistant error
\* message is appended and retryQuestion is the submitted question.
C6_NetworkFailureIsRetried ==
  (TurnFailed /\ turnError = FetchTypeError /\ text = <<>> /\ ~cleared) =>
     /\ fetchCalls >= 2
     /\ retryQuestion = question
     /\ messages # <<>>
     /\ Last(messages).role = "assistant"

AllRetryable(errs) == \A i \in DOMAIN errs : isRetryableError(errs[i])

\* C7 as stated: with retries = MAX_RETRIES = 2 and every attempt failing
\* with a retryable error, the operation is invoked exactly 2 times.
C7_TwoInvocations ==
  (rpc = "thrown" /\ retries = MAX_RETRIES /\ AllRetryable(raised)) => invocations = 2

\* C7 amended: when every attempt fails with a retryable error the operation
\* is invoked exactly retries + 1 times before the failure is surfaced, which
\* is 3 times with the default retries = MAX_RETRIES = 2.
C7_AttemptBound ==
  (rpc = "thrown" /\ AllRetryable(raised)) =>
     /\ invocations = retries + 1
     /\ retries = MAX_RETRIES => invocations = 3

C7_Witness ==
  /\ rpc = "thrown"
  /\ retries = MAX_RETRIES
  /\ Len(raised) = 3
  /\ AllRetryable(raised)
  /\ invocations = 3

\* C8: the k-th wait (k from 0) is 1000 * 2^k ms; there is a wait only after
\* a retryable failure of an attempt that is not the last allowed one, and no
\* attempt starts before the wait before it has elapsed.
C8_BackoffSchedule ==
  /\ \A i \in DOMAIN sleeps :
       /\ sleeps[i] = <<1000, 2000, 4000, 8000, 16000>>[i]
       /\ i <= Len(raised)
       /\ isRetryableError(raised[i])
       /\ i - 1 < retries
  /\ rpc = "thrown" => Len(sleeps) < Len(raised) \/ Len(sleepEnd) > retries
  /\ Len(sleeps) = IF rpc = "sleep" THEN Len(raised) ELSE Len(sleepEnd)
  /\ \A i \in DOMAIN sleepEnd : sleepEnd[i] - sleepStart[i] >= sleeps[i]
  /\ invocations <= Len(sleepEnd) + 1

C8_Witness ==
  /\ rpc = "thrown"
  /\ sleeps = <<1000, 2000>>
  /\ invocations = 3

\* the classes of the error taxonomy
IsNetworkFailure(e) == e.request /\ ~e.hasResponse
IsTimeoutFailure(e) == e.code = "ECONNABORTED" \/ e.message \in MessagesWithTimeout
IsServerFailure(e) == e.hasResponse /\ e.status >= 500
IsRateLimited(e) == e.hasResponse /\ e.status = 429
IsClientFailure(e) == e.hasResponse /\ e.status >= 400 /\ e.status < 500 /\ e.status # 429
IsDecodeFailure(e) == e.name = "SyntaxError"

\* C9: isRetryableError is true exactly for network, timeout, server and
\* rate-limited errors, and false for every client error and every decode
\* failure.
C9_RetryabilityClassification ==
  classified =>
     /\ retryable <=> \/ IsNetworkFailure(errorArg)
                      \/ IsTimeoutFailure(errorArg)
                      \/ IsServerFailure(errorArg)
                      \/ IsRateLimited(errorArg)
     /\ (IsClientFailure(errorArg) \/ IsDecodeFailure(errorArg)) => ~retryable

\* s is t without some of its first elements
IsSuffix(s, t) == Len(s) <= Len(t) /\ s = SubSeq(t, Len(t) - Len(s) + 1, Len(t))

OverCapInput ==
  /\ setItemDone
  /\ SerializedLength(persistArg) > MAX_STORAGE_SIZE
  /\ Len(persistArg) >= 1

C11_PartialOutputSurvives ==
  (TurnFailed /\ hasReceivedContent /\ ~cleared) =>
     /\ \E i \in DOMAIN messages :
          /\ messages[i].id = streamId
          /\ messages[i].role = "assistant"
          /\ messages[i].content = ConcatChunks(log)
     /\ currentStreamingMessage = Null
     /\ currentStreamingMessageId = NoId

\* the callbacks made for a sequence of complete lines
LinesLog(lines) == ProcessLines(FreshPage, lines).log
\* the callbacks made at the end of the stream when `rest` is in the buffer
RestLog(rest) == EndOfStream([FreshPage EXCEPT !.buffer = rest]).log
\* a complete line whose payload does not parse
IsMalformedLine(line) == Trim(line) = DataPrefix \o PayloadMalformed

\* C12: when the stream holds a complete `data: ` line whose payload does
\* not parse, queryStream ends normally and the callbacks it made are those
\* of the lines before it, one onChunk with the payload text, and those of
\* the lines after it, exactly as without the malformed line.
C12_MalformedDegradesToContent ==
  (pc = "idle" /\ outcome # "none") =>
     LET lines == SplitLines(text)
         n == Len(lines)
     IN \A i \in 1..(n - 1) :
          IsMalformedLine(lines[i]) =>
             /\ outcome = "success"
             /\ error = Undef
             /\ log = LinesLog(SubSeq(lines, 1, i - 1))
                      \o <<LogChunk(PayloadMalformed)>>
                      \o LinesLog(SubSeq(lines, i + 1, n - 1))
                      \o RestLog(lines[n])

\* the malformed record between two content records was read in several
\* buffers, and the content records before and after it were delivered
C12_Witness ==
  /\ TurnSucceeded
  /\ text = ScenarioMalformed
  /\ cutMidLine
  /\ log = <<LogChunk(<<"a">>), LogChunk(PayloadMalformed), LogChunk(<<"b">>),
             LogComplete(EmptyObj)>>
  /\ currentStreamingMessage = <<"a">> \o PayloadMalformed \o <<"b">>

\* C13: for a non-empty sequence of messages, deserialize(serialize(state))
\* holds the same messages in the same order with timestamps that are Dates
\* of the original instants, and serializing it again gives the output of
\* the first serialization.
C13_TimestampRoundTrip ==
  /\ rtpc # "threw"
  /\ rtpc \in {"restored", "reserialized"} => rtRestored = rtState
  /\ rtpc = "reserialized" => rtReserialized = rtSerialized

\* three messages, the first stamped with the last millisecond of a leap day
\* and the last with the epoch, went through the round trip
C13_Witness ==
  /\ rtpc = "reserialized"
  /\ Len(rtState.messages) = 3
  /\ rtState.messages[1].timestamp = DateValue(789, 86399999)
  /\ rtState.messages[3].timestamp = DateValue(0, 0)
  /\ rtSerialized.messages[1].timestamp =
       <<"1", "9", "7", "2", "-", "0", "2", "-", "2", "9", "T", "2", "3", ":", "5", "9", ":",
         "5", "9", ".", "9", "9", "9", "Z">>
  /\ rtRestored.messages[1].timestamp = DateValue(789, 86399999)

QuotaOnFirstWrite ==
  called = "setItem" /\ writes[1].outcome = "QuotaExceededError"

\* C14 as stated: whatever the underlying storage does, setItem, getItem and
\* removeItem return normally; on a quota error setItem removes the key and
\* attempts the write exactly one more time; a call makes at most two write
\* attempts, and nothing follows a second failure.
C14_FailuresNeverEscape ==
  /\ ~escaped
  /\ Len(writes) <= 2
  /\ QuotaOnFirstWrite => Len(removals) = 1 /\ Len(writes) = 2

\* C14 amended: setItem, getItem and removeItem return normally whatever the
\* underlying storage does; on a quota error setItem calls removeItem once
\* and, when the removal did not fail, attempts the write exactly one more
\* time; when the removal fails no second write is attempted and the entry
\* is left as it was; a call makes at most two write attempts, and after a
\* second failure the entry is absent.
C14_FailuresAreContained ==
  /\ ~escaped
  /\ Len(writes) <= 2
  /\ called = "setItem" =>
       /\ Len(writes) >= 1
       /\ Len(writes) = 2 <=> (QuotaOnFirstWrite /\ removals = <<"ok">>)
       /\ QuotaOnFirstWrite => Len(removals) = 1
       /\ ~QuotaOnFirstWrite => removals = <<>>
       /\ (Len(writes) = 2 /\ writes[2].outcome # "ok") => storedValue = NoValue
  /\ called = "getItem" => writes = <<>> /\ removals = <<>>
  /\ called = "removeItem" => writes = <<>> /\ Len(removals) = 1

\* the first write met the quota, the key was removed, and the second write
\* failed too: the call returned and the entry is gone
C14_Witness ==
  /\ called = "setItem"
  /\ Len(writes) = 2
  /\ writes[1].outcome = "QuotaExceededError"
  /\ writes[2].outcome = "QuotaExceededError"
  /\ removals = <<"ok">>
  /\ storedValue = NoValue
  /\ ~escaped

\* C15: the value handed to the storage holds the messages list and nothing
\* else of the state (not the in-progress message, its id, isLoading or
\* error), and after a reload there is no in-progress message, whatever the
\* state was when it was saved.
C15_OnlySealedMessagesPersisted ==
  /\ DOMAIN persisted = {"messages"}
  /\ persisted.messages = messages
  /\ outcome = "reloaded" =>
       /\ currentStreamingMessage = Null
       /\ currentStreamingMessageId = NoId
       /\ ~isLoading
       /\ error = Undef

\* the page was reloaded while a turn was streaming and had received the
\* content "a": the user message is restored, the in-progress message is not
C15_Witness ==
  /\ outcome = "reloaded"
  /\ ~cleared
  /\ ConcatChunks(log) = <<"a">>
  /\ Len(messages) = 1
  /\ messages[1].role = "user"
  /\ currentStreamingMessage = Null

\* C16: when retryWithBackoff gives up, the error it throws is the error
\* raised by the last invocation of the wrapped operation: not a wrapper, and
\* not the error of an earlier attempt.
C16_LastFailureUnchanged ==
  rpc = "thrown" =>
     /\ Len(raised) = invocations
     /\ thrown = raised[invocations]

\* three attempts failed with three different errors, the last of them not
\* retryable, and that one was thrown
C16_Witness ==
  /\ rpc = "thrown"
  /\ raised = <<AxiosNetworkError, AxiosStatusError(503), AxiosStatusError(404)>>
  /\ thrown = AxiosStatusError(404)

\* a failure of the transient classes
IsTransientFailure(e) ==
  IsNetworkFailure(e) \/ IsTimeoutFailure(e) \/ IsServerFailure(e) \/ IsRateLimited(e)

\* C17: in api.query, api.getStats and api.healthCheck a request that fails
\* with a no-response network error, a timeout, a status >= 500 or a status
\* 429 reaches isRetryableError as a retryable error, and is attempted again
\* unless it was the last allowed attempt.
C17_TransientFailuresAreRetried ==
  /\ \A i \in DOMAIN causes : IsTransientFailure(causes[i]) => isRetryableError(raised[i])
  /\ (rpc = "thrown" /\ causes # <<>> /\ IsTransientFailure(Last(causes))) =>
        invocations = retries + 1

\* C18: a streaming turn that fails with a status >= 500, a 429, a timeout
\* or a no-response network error ends with retryQuestion set to the
\* submitted question; one that fails with another 4xx status or an explicit
\* stream error ends with retryQuestion null.
C18_FailedTurnClassification ==
  TurnFailed =>
     /\ ( \/ turnError.statusCode >= 500
          \/ turnError.statusCode = 429
          \/ IncludesTimeout(turnError.message)
          \/ turnError = FetchTypeError ) => retryQuestion = question
     /\ ( \/ (turnError.statusCode \in 400..499 /\ turnError.statusCode # 429)
          \/ turnError.name = "Error" ) => retryQuestion = Null

\* the assistant messages appended since the turn began
AssistantMessagesOfTurn ==
  {i \in DOMAIN messages : messages[i].id >= streamId /\ messages[i].role = "assistant"}

\* C19: when the streaming call fails before any content delta, no message
\* is made from the in-progress message, exactly one assistant message (the
\* error message) is appended for the turn, and no in-progress message
\* remains.
C19_NoEmptyMessageOnFailure ==
  (TurnFailed /\ ~hasReceivedContent /\ ~cleared) =>
     /\ \A i \in DOMAIN messages : messages[i].id # streamId
     /\ Cardinality(AssistantMessagesOfTurn) = 1
     /\ Last(messages).role = "assistant"
     /\ Last(messages).id = nextId - 1
     /\ currentStreamingMessage = Null
     /\ currentStreamingMessageId = NoId

\* C20: a message made by the failure path of a turn from partially
\* accumulated content carries metadata that records the failure.
C20_DiscardedMessageIsFlagged ==
  (TurnFailed /\ ~cleared) =>
     \A i \in DOMAIN messages :
        (messages[i].id = streamId /\ messages[i].content # <<>>) =>
           messages[i].metadata.present

\* C21: every value a call of setItem writes successfully, by the first
\* write or by the write retried after a quota error, is within the cap or
\* holds exactly one message, and the retried write carries the value of the
\* first write (the trimmed one).
C21_EveryWriteWithinBudget ==
  setItemDone =>
     /\ \A i \in DOMAIN writes :
          writes[i].outcome = "ok" =>
             \/ SerializedLength(writes[i].value) <= MAX_STORAGE_SIZE
             \/ Len(writes[i].value) = 1
     /\ Len(writes) = 2 => writes[2].value = writes[1].value

\* the smallest index from which the messages fit the cap, or the last index
MinimalKeptIndex(msgs) ==
  LET n == Len(msgs)
      fits == {k \in 1..n : SerializedLength(SubSeq(msgs, k, n)) <= MAX_STORAGE_SIZE}
  IN Min(fits \cup {n})

\* C22: when setItem is given messages m1..mn (n >= 1) and a write succeeds,
\* the messages persisted are mk..mn in their order, with k the smallest
\* index from which the serialized state fits the cap, or n when no suffix
\* of more than one message fits; the persisted list is never empty.
C22_EvictionOldestFirstMinimal ==
  (setItemDone /\ Len(persistArg) >= 1 /\ \E i \in DOMAIN writes : writes[i].outcome = "ok") =>
     /\ storedValue.present
     /\ storedValue.messages =
          SubSeq(persistArg, MinimalKeptIndex(persistArg), Len(persistArg))
     /\ Len(storedValue.messages) >= 1

IsPrefixOf(s, t) == Len(s) <= Len(t) /\ s = SubSeq(t, 1, Len(s))

\* C24: in every step of a session the messages list before is a prefix of
\* the messages list after (sealed messages are neither edited, reordered
\* nor removed), except the step of clearMessages, which removes them all.
C24_SealedMessagesAppendOnly ==
  [][\/ IsPrefixOf(messages, messages')
     \/ (messages' = <<>> /\ cleared' /\ pc' = pc /\ turns' = turns)]_vars

\* the second turn has ended: a user message, a sealed partial answer and an
\* error message were appended after the two messages of the first turn
C24_Witness ==
  /\ pc = "idle"
  /\ turns = 2
  /\ ~cleared
  /\ sealed >= 1
  /\ Len(messages) = 5
  /\ messages[1].role = "user"
  /\ messages[3].role = "user"
  /\ messages[4].id = streamId

\* the request of the running handleSubmit is issued or its stream is read,
\* and no clearMessages ran since it began
RequestUnderWay == pc \in {"fetch", "read"} /\ ~cleared

\* the in-progress message is observable with the content of the deltas
\* decoded from what was read so far, applied in their order
DeltasApplied ==
  /\ currentStreamingMessageId = streamId
  /\ pc = "fetch" => currentStreamingMessage = <<>> /\ log = <<>>
  /\ pc = "read" =>
       /\ log = OneBufferLog(SubSeq(text, 1, pos))
       /\ currentStreamingMessage = ConcatChunks(log)

\* the user message of this run is the newest message, made just before the
\* in-progress message was started
UserMessageAppendedFirst ==
  /\ messages # <<>>
  /\ Last(messages).role = "user"
  /\ Last(messages).content = question
  /\ Last(messages).id = streamId - 1

\* C25 as stated: in every run of handleSubmit, while the request is issued
\* and while the stream is read, the user message was appended first, then
\* the empty in-progress message was started, and every content delta
\* decoded so far is applied to the in-progress content, in order, before
\* the next read.
C25_OrderOfEffectsEveryRun ==
  RequestUnderWay => (UserMessageAppendedFirst /\ DeltasApplied)

\* C25 amended: the same, with the user message appended first in every run
\* that is not a retry; a retry appends no user message, and the newest
\* message is then the error message of the failed turn.
C25_OrderOfEffects ==
  RequestUnderWay =>
     /\ ~isRetry => UserMessageAppendedFirst
     /\ isRetry => (messages # <<>> /\ Last(messages).role = "assistant"
                    /\ Last(messages).id = streamId - 1)
     /\ DeltasApplied

\* a first submission whose stream has delivered two deltas and is not
\* finished
C25_Witness ==
  /\ RequestUnderWay
  /\ pc = "read"
  /\ ~isRetry
  /\ pos < Len(text)
  /\ Len(log) = 2
  /\ log[1].cb = "onChunk"
  /\ log[2].cb = "onChunk"
  /\ currentStreamingMessage = log[1].chunk \o log[2].chunk

\* t holds s as a run of consecutive elements
ContainsText(t, s) ==
  \E i \in 1..(Len(t) - Len(s) + 1) : SubSeq(t, i, i + Len(s) - 1) = s

\* C26: whatever the stream holds, the line `data: [DONE]` included, as the
\* last line with or without its newline, when the turn has succeeded no
\* onChunk carried the sentinel and the text [DONE] is not in the content of
\* the in-progress message.
C26_DoneSentinelNeverEmitted ==
  TurnSucceeded =>
     /\ \A i \in DOMAIN log :
          log[i].cb = "onChunk" => ~ContainsText(log[i].chunk, DoneSentinel)
     /\ Truthy(currentStreamingMessage) =>
          ~ContainsText(currentStreamingMessage, DoneSentinel)

\* the onComplete calls of the turn whose argument carries a strategy: those
\* for `metadata`-typed records and for the metadata of legacy records
MetadataCarriers ==
  {i \in DOMAIN log : log[i].cb = "onComplete" /\ log[i].obj.strategy # Undef}

\* C27: when the turn has succeeded, the content of a legacy `chunk` record
\* is in the in-progress content like that of a content record, and the
\* pending metadata holds the strategy, complexity and relationship
\* intensity of the last record that carried them, whether it was a
\* `metadata`-typed record or a legacy record with a `metadata` field.
C27_LegacyRecordsAbsorbed ==
  TurnSucceeded =>
     /\ text = ScenarioLegacy => currentStreamingMessage = <<"a">>
     /\ MetadataCarriers # {} =>
          LET obj == log[Max(MetadataCarriers)].obj
          IN /\ streamMetadata.strategy = obj.strategy
             /\ streamMetadata.complexity = obj.complexity
             /\ streamMetadata.relationship_intensity = obj.relationship_intensity

\* C28: every handleSubmit that has issued its request eventually finishes
\* with isLoading false, also when the backend never responds or stops
\* sending bytes.
C28_TurnEventuallyFinishes ==
  (pc = "fetch") ~> (pc = "idle" /\ ~isLoading)

UserCount(msgs) == Cardinality({i \in DOMAIN msgs : msgs[i].role = "user"})

\* C29: a step that starts a run of handleSubmit as a retry follows a failed
\* turn, carries the question of that turn and leaves the number of user
\* messages as it is; a step that starts any other run adds exactly one user
\* message; and no other step changes the number of user messages, except
\* clearMessages.  Hence, without a clear, the user messages are as many as
\* the submissions that were not retries.
C29_RetryAddsNoUserMessage ==
  [][IF turns' = turns + 1
       THEN IF isRetry'
              THEN /\ outcome = "failed"
                   /\ question' = question
                   /\ UserCount(messages') = UserCount(messages)
              ELSE UserCount(messages') = UserCount(messages) + 1
       ELSE \/ UserCount(messages') = UserCount(messages)
            \/ (messages' = <<>> /\ cleared')]_vars

\* the failed turn of the first question is being retried: two runs of
\* handleSubmit, one user message
C29_Witness ==
  /\ pc = "fetch"
  /\ isRetry
  /\ turns = 2
  /\ ~cleared
  /\ UserCount(messages) = 1
  /\ messages[1].content = question

\* C30: in every state of a session, with clearMessages interleaved with the
\* callbacks of a running stream, currentStreamingMessage is null exactly
\* when currentStreamingMessageId is null.
C30_StreamingFieldsBothOrNeither ==
  (currentStreamingMessage = Null) <=> (currentStreamingMessageId = NoId)

=============================================================================
